---------------------------- MODULE Spec2Model ----------------------------
(***************************************************************************)
(* A model of the kwap CoAP runtime core (src/kwap/src/core/mod.rs): the   *)
(* per-peer id and token histories, the three bounded slot buffers         *)
(* (resps, fling_q, retry_q), the ack matcher, and the driver step `tick`  *)
(* with the caller API built on it.                                        *)
(*                                                                         *)
(* An Option<T> is modelled as a sequence of length at most one: None is   *)
(* <<>> and Some(x) is <<x>>.  A Result is a record with a field `err`     *)
(* that is "none" on success.                                              *)
(***************************************************************************)
EXTENDS Integers, Sequences, FiniteSets, TLC

VARIABLES
  now,        \* the reading of Core.clock (milliseconds)
  rx,         \* datagrams waiting in Core.sock (what recv will yield)
  retry_q,    \* Core.retry_q : Buffer<Retryable<Addrd<Message>>, 16>
  fling_q,    \* Core.fling_q : Buffer<Addrd<Message>, 16>
  resps,      \* Core.resps   : Buffer<Addrd<Resp>, 16>
  msg_ids,    \* Core.msg_ids    : Map<SocketAddr, [Stamped<Id>]>
  msg_tokens, \* Core.msg_tokens : Map<SocketAddr, [Stamped<u32>]>
  panicked,   \* TRUE once an operation has panicked (the program is gone)
  spinning,   \* TRUE once an operation waits in nb::block! for a socket that
              \* never accepts the send (the call does not return)
  hist,       \* history: counts of the calls made, acks heard, pings sent
  last        \* history: the last operation, its inputs, result and sends

vars == <<now, rx, retry_q, fling_q, resps, msg_ids, msg_tokens, panicked, spinning,
          hist, last>>

----------------------------------------------------------------------------
(* Bounds of the model *)

\* requests handed to send_req over a run
MaxReqs == 2
\* datagrams the peer delivers over a run
MaxDgrams == 2
\* datagrams waiting in the socket at once
MaxRx == 1
\* the send or clock read of an operation that fails is among the first
MaxFail == 1
\* the clock advances by this much at a time (retry specification)
RetryStep == 3200
\* the clock stops advancing here (retry specification)
MaxRetryTime == 6500
\* calls of ack over a run (tick specification)
MaxAcks == 2
\* capacity of the option array add is given, and the greatest option
\* number it is given (option specification)
MaxOpts == 2
\* the longest option list normalize is given (normalize specification)
MaxOptLen == 3
\* calls of store_resp over a run (compaction specification)
MaxStores == 19
\* datagrams waiting in the socket when the core is made (inbound
\* specification)
MaxWaiting == 2
\* calls of next_id / next_token over a run (allocator specification)
MaxAllocs == 4
\* the clock stops advancing here (allocator specification)
MaxAllocTime == 2

(* Program constants *)

\* capacity of resps, fling_q and retry_q
BufferCap == 16
\* RetryTimer of Core::retryable: Strategy::Exponential(Milliseconds(100))
InitDelay == 100
\* RetryTimer of Core::retryable: Attempts(5)
MaxAttempts == 5
\* size of the serialization buffer ArrayVec<[u8; 1152]>
DgramCap == 1152
\* size of ping's serialization buffer ArrayVec<[u8; 13]>
PingCap == 13
\* ids are u16
IdWidth == 65536

\* OptDelta is u16
DeltaWidth == 65536

----------------------------------------------------------------------------
(* Option *)

None == <<>>
Some(x) == <<x>>
IsSome(o) == Len(o) = 1

\* iter().filter_map(Option::as_ref): the present values, in slot order
RECURSIVE Present(_)
Present(buf) ==
  IF buf = <<>> THEN <<>>
  ELSE IF IsSome(Head(buf)) THEN <<Head(buf)[1]>> \o Present(Tail(buf))
  ELSE Present(Tail(buf))

\* ArrayVec::remove(ix), 0-based: the later elements shift down
RemoveAt(buf, ix) ==
  [j \in 1..(Len(buf) - 1) |-> IF j <= ix THEN buf[j] ELSE buf[j + 1]]

\* the last (greatest) of a set of positions, 0 if there is none
LastIndex(found) ==
  IF found = {} THEN 0 ELSE CHOOSE j \in found : \A k \in found : j >= k

\* the first (least) of a set of positions (1-based), 0 if there is none
FirstIndex(found) ==
  IF found = {} THEN 0 ELSE CHOOSE j \in found : \A k \in found : j <= k

----------------------------------------------------------------------------
(* Messages *)

Con == "CON"
Non == "NON"
AckT == "ACK"
Reset == "RESET"

\* kwap_msg::Code: (class, detail)
Code(class, detail) == <<class, detail>>
EMPTY == Code(0, 0)
GET == Code(0, 1)
CONTENT == Code(2, 5)
NOT_FOUND == Code(4, 4)

\* Code::kind
CodeKind(code) ==
  IF code = EMPTY THEN "Empty"
  ELSE IF code[1] = 0 THEN "Request"
  ELSE IF code[1] \in {2, 4, 5} THEN "Response"
  ELSE "Other"

\* a Message as far as the core reads it: payload is its length in bytes,
\* token its opaque 8-byte value (or the empty token)
Msg(ty, id, token, code, payload) ==
  [ty |-> ty, id |-> id, token |-> token, code |-> code, payload |-> payload]

\* kwap_msg::Token: Token(Default::default()) is empty, any other is 8 bytes
EmptyToken == <<>>
Token(n) == <<"tok", n>>
TokenLen(token) == IF token = EmptyToken THEN 0 ELSE 8

\* serialized size: 4-byte header, the token, then marker and payload if any
MsgSize(msg) ==
  4 + TokenLen(msg.token) + (IF msg.payload = 0 THEN 0 ELSE 1 + msg.payload)

\* try_into_bytes::<ArrayVec<[u8; cap]>>() succeeds
Fits(msg, cap) == MsgSize(msg) <= cap

Addr(host, port) == <<host, port>>
NoAddr == <<"", 0>>
Addrd(data, addr) == [data |-> data, addr |-> addr]


\* the wire form of a message, and a datagram that is not a CoAP message
Bytes(msg) == <<"coap", msg>>
Junk == <<"junk">>

\* Message::try_from_bytes
try_from_bytes(bytes) ==
  IF bytes[1] = "coap"
  THEN [err |-> "none", msg |-> bytes[2]]
  ELSE [err |-> "FromBytes", msg |-> Msg(Con, 0, EmptyToken, EMPTY, 0)]

\* Resp from Message (msg.map(Into::into)) and back
Resp(msg) == [msg |-> msg]

----------------------------------------------------------------------------
(* Retry timer (crate::retry, not part of the sources at hand: modelled    *)
(* from the design's description of the timer)                             *)

RetryTimer_new(start) ==
  [start |-> start, delay |-> InitDelay, next |-> start + InitDelay,
   attempts |-> MaxAttempts]

\* the answer for `at`, and the timer as the query leaves it
what_should_i_do(timer, at) ==
  IF at < timer.next
  THEN [should |-> "Wait", timer |-> timer]
  ELSE IF timer.attempts > 0
  THEN [should |-> "Retry",
        timer |-> [timer EXCEPT !.delay = 2 * timer.delay,
                                !.next = timer.next + 2 * timer.delay,
                                !.attempts = timer.attempts - 1]]
  ELSE [should |-> "Cry", timer |-> timer]

\* Retryable(t, timer); uid and retx are history: the entry's serial number
\* and the number of sends send_retrys issued for it
Retryable(t, timer, uid) == [data |-> t, timer |-> timer, uid |-> uid, retx |-> 0]

----------------------------------------------------------------------------
(* The state an operation threads through its steps, and its inputs.       *)
(* st.sent logs the socket sends the operation issued, st.walk the answers *)
(* the retry timers gave, st.clk counts the clock reads, st.acked is the   *)
(* serial number of the entry the ack matcher removed, st.due whether that *)
(* entry's timer had run out at the time.                                  *)
(* env.pollErr: sock.poll fails; env.sendErrAt = n: the n-th send of the   *)
(* operation fails; env.clockErrAt = n: its n-th clock read fails (0:      *)
(* none); env.busyAt = n: at the n-th send of the operation the socket     *)
(* answers WouldBlock, once ("once") or every time it is asked ("always"). *)

Start ==
  [rx |-> rx, retry_q |-> retry_q, fling_q |-> fling_q, resps |-> resps,
   panicked |-> FALSE, spinning |-> FALSE, sent |-> <<>>, walk |-> <<>>, clk |-> 0,
   acked |-> 0, due |-> FALSE]

Env(pollErr, sendErrAt, clockErrAt) ==
  [pollErr |-> pollErr, sendErrAt |-> sendErrAt, clockErrAt |-> clockErrAt,
   busyAt |-> 0, busy |-> "no"]

\* the socket answers WouldBlock at the at-th send of the operation
Busy(at, how) == [Env(FALSE, 0, 0) EXCEPT !.busyAt = at, !.busy = how]

Ok(st) == [st |-> st, err |-> "none"]
Err(st, what) == [st |-> st, err |-> what]

\* a present retry_q entry holds exactly this message for this address
Queued(q, msg, addr) ==
  \E j \in 1..Len(q) : IsSome(q[j]) /\ q[j][1].data = Addrd(msg, addr)

\* the record of a send in st.sent: ok says the socket took the message,
\* spun how often nb::block! asked the socket again after a WouldBlock
Sent(st, by, uid, addr, msg, ok, spun) ==
  [by |-> by, uid |-> uid, addr |-> addr, msg |-> msg, ok |-> ok,
   queued |-> Queued(st.retry_q, msg, addr), spun |-> spun]

\* nb::block!(sock.send(..)): how the socket answers the send that is due
Answer(st, env) ==
  IF env.busyAt = Len(st.sent) + 1 THEN env.busy ELSE "no"

\* Core::send: nb::block!(sock.send(..)) asks the socket again for as long
\* as it answers WouldBlock; a socket error is a SockError
send(st, by, uid, addr, msg, env) ==
  IF Answer(st, env) = "always"
  THEN Err([st EXCEPT !.sent = Append(@, Sent(st, by, uid, addr, msg, FALSE, 1)),
                      !.spinning = TRUE], "hang")
  ELSE IF env.sendErrAt # Len(st.sent) + 1
  THEN Ok([st EXCEPT !.sent = Append(@, Sent(st, by, uid, addr, msg, TRUE,
                                            IF Answer(st, env) = "once" THEN 1 ELSE 0))])
  ELSE Err([st EXCEPT !.sent = Append(@, Sent(st, by, uid, addr, msg, FALSE, 0))],
           "SockError")

\* clock.try_now()
try_now(st, env) ==
  IF env.clockErrAt = st.clk + 1
  THEN Err([st EXCEPT !.clk = @ + 1], "ClockError")
  ELSE Ok([st EXCEPT !.clk = @ + 1])

----------------------------------------------------------------------------
(* Buffers *)

\* a stored response: Addrd(Resp, sender); uid is history (the serial
\* number of the datagram that carried it)
Stored(resp, addr, uid) == [data |-> resp, addr |-> addr, uid |-> uid]

\* a compaction that loses the earliest present response
Compact_tail(buf) == Tail(SelectSeq(buf, IsSome))

\* iter_mut().filter_map(|o| o.take()).map(Some).collect()
Compact(buf) == SelectSeq(buf, IsSome)

\* Vec-like push of store_resp after compaction: panics if still full
push_compacted(st, compact, resp) ==
  IF Len(compact) < BufferCap
  THEN [st EXCEPT !.resps = Append(compact, Some(resp))]
  ELSE [st EXCEPT !.resps = compact, !.panicked = TRUE]

\* Core::store_resp: try_push; when full, drop the empty slots and push
store_resp(st, resp) ==
  IF Len(st.resps) < BufferCap
  THEN [st EXCEPT !.resps = Append(@, Some(resp))]
  ELSE push_compacted(st, Compact(st.resps), resp)

\* Message::ack(id) (kwap_msg, not part of the sources at hand): the empty
\* ACK for a message, with the id given and the message's token
Message_ack(msg, id) == Msg(AckT, id, msg.token, EMPTY, 0)

\* Core::ack: for a CON response, the ACK with a generated id is pushed
\* onto fling_q; fling_q.push panics when the buffer has no room
ack(st, resp, ack_id) ==
  IF resp.data.msg.ty # Con THEN st
  ELSE IF Len(st.fling_q) >= BufferCap THEN [st EXCEPT !.panicked = TRUE]
  ELSE [st EXCEPT !.fling_q = Append(@, Some(Addrd(Message_ack(resp.data.msg, ack_id),
                                                   resp.addr)))]

\* a removal that drops the oldest entry when no entry matched
remove_found_or_oldest(st, found) ==
  IF st.retry_q # <<>>
  THEN [st EXCEPT !.retry_q = RemoveAt(@, IF found > 0 THEN found - 1 ELSE 0)]
  ELSE st

\* Core::process_acks, the removal: retry_q.remove(ix) for the index found
\* (found is ix + 1, or 0 when no entry matched)
remove_found(st, found) ==
  IF found > 0
  THEN [st EXCEPT !.retry_q = RemoveAt(@, found - 1),
                  !.acked = IF IsSome(st.retry_q[found])
                            THEN st.retry_q[found][1].uid ELSE 0,
                  !.due = /\ IsSome(st.retry_q[found])
                          /\ now >= st.retry_q[found][1].timer.next]
  ELSE st

\* a search that pairs on the message id alone
find_acked_by_id(q, msg) ==
  FirstIndex({j \in 1..Len(Present(q)) : Present(q)[j].data.data.id = msg.data.id})

\* Core::process_acks, the search: the index of the first entry for the
\* sender and id of msg among the present entries
find_acked(q, msg) ==
  FirstIndex({j \in 1..Len(Present(q)) : /\ Present(q)[j].data.addr = msg.addr
                                         /\ Present(q)[j].data.data.id = msg.data.id})

\* a matcher that acts on messages of every type
process_acks_any_type(st, msg) == remove_found(st, find_acked(st.retry_q, msg))

\* Core::process_acks
process_acks(st, msg) ==
  IF msg.data.ty \in {AckT, Reset}
  THEN remove_found(st, find_acked(st.retry_q, msg))
  ELSE st

\* a store that keeps every inbound message but the empty ones
store_if_coded(st, msg, uid) ==
  IF CodeKind(msg.data.code) # "Empty"
  THEN store_resp(st, Stored(Resp(msg.data), msg.addr, uid))
  ELSE st

\* a store that keeps a response only if a queued request has its token
store_if_outstanding(st, msg, uid) ==
  IF /\ CodeKind(msg.data.code) = "Response"
     /\ \E j \in 1..Len(st.retry_q) :
          IsSome(st.retry_q[j]) /\ st.retry_q[j][1].data.data.token = msg.data.token
  THEN store_resp(st, Stored(Resp(msg.data), msg.addr, uid))
  ELSE st

\* Core::msg_recvd, after process_acks
store_if_response(st, msg, uid) ==
  IF CodeKind(msg.data.code) = "Response"
  THEN store_resp(st, Stored(Resp(msg.data), msg.addr, uid))
  ELSE st

\* Core::msg_recvd
msg_recvd(st, msg, uid) == store_if_response(process_acks(st, msg), msg, uid)

\* Core::dgram_recvd, after the parse
dgram_parsed(st, d, parsed) ==
  IF parsed.err # "none"
  THEN Err(st, parsed.err)
  ELSE Ok(msg_recvd(st, Addrd(parsed.msg, d.addr), d.uid))

\* Core::dgram_recvd: parse, then msg_recvd
dgram_recvd(st, d) == dgram_parsed(st, d, try_from_bytes(d.data))

\* Core::try_get_resp, the take: Option::take on the slot found
\* a lookup that hands the response out and leaves it stored
take_found_kept(st, found) ==
  IF found > 0
  THEN [st |-> st, err |-> "none", resp |-> Some(st.resps[found][1])]
  ELSE [st |-> st, err |-> "WouldBlock", resp |-> None]

take_found(st, found) ==
  IF found > 0
  THEN [st |-> [st EXCEPT !.resps[found] = None], err |-> "none",
        resp |-> Some(st.resps[found][1])]
  ELSE [st |-> st, err |-> "WouldBlock", resp |-> None]

\* Core::try_get_resp, resp_matches
resp_matches(o, token, sock) ==
  IsSome(o) /\ o[1].data.msg.token = token /\ o[1].addr = sock

\* Core::try_get_resp: take the first present response for (token, sock)
try_get_resp(st, token, sock) ==
  take_found(st, FirstIndex({j \in 1..Len(st.resps) : resp_matches(st.resps[j], token, sock)}))

\* a predicate that looks at the message id alone
still_qd_by_id(q, req_id, addr) ==
  \E j \in 1..Len(q) : IsSome(q[j]) /\ q[j][1].data.data.id = req_id

\* Core::check_ping, still_qd
still_qd(q, req_id, addr) ==
  \E j \in 1..Len(q) : /\ IsSome(q[j])
                       /\ q[j][1].data.data.id = req_id
                       /\ q[j][1].data.addr = addr

\* Core::check_ping
check_ping(st, req_id, addr) ==
  IF still_qd(st.retry_q, req_id, addr) THEN Err(st, "WouldBlock") ELSE Ok(st)

----------------------------------------------------------------------------
(* The two outbound walks *)

RECURSIVE flings_from(_, _, _)

\* a walk that goes on to the next entry after a failed send
fling_sent_on(r, i, env) == flings_from(r.st, i + 1, env)

\* Core::send_flings, after the send of the entry of slot i
fling_sent(r, i, env) ==
  IF r.err # "none" THEN r ELSE flings_from(r.st, i + 1, env)

\* Core::send_flings, the entry f taken from slot i: serialize and send
fling_one(st, f, i, env) ==
  IF ~Fits(f.data, DgramCap) THEN Err(st, "ToBytes")
  ELSE fling_sent(send(st, "fling", 0, f.addr, f.data, env), i, env)

\* Core::send_flings from slot i on: every present slot is taken, then
\* serialized and sent; the first error ends the walk
flings_from(st, i, env) ==
  IF i > Len(st.fling_q) THEN Ok(st)
  ELSE IF ~IsSome(st.fling_q[i]) THEN flings_from(st, i + 1, env)
  ELSE fling_one([st EXCEPT !.fling_q[i] = None], st.fling_q[i][1], i, env)

send_flings(st, env) == flings_from(st, 1, env)

RECURSIVE retrys_from(_, _, _)

\* a match that sends nothing when the timer answers Retry
retry_answer_unsent(st, i, should, env) ==
  CASE should = "Cry" -> Err(st, "MessageNeverAcked")
    [] OTHER -> Ok(st)

\* a match that sends the entry again when the timer has given up
retry_answer_resent(st, i, should, env) ==
  CASE should \in {"Retry", "Cry"} ->
         send([st EXCEPT !.retry_q[i][1].retx = @ + 1], "retry",
              st.retry_q[i][1].uid, st.retry_q[i][1].data.addr,
              st.retry_q[i][1].data.data, env)
    [] OTHER -> Ok(st)

\* Core::send_retrys, the match on the timer's answer for the entry of slot i
retry_answer(st, i, should, env) ==
  CASE should = "Retry" ->
         send([st EXCEPT !.retry_q[i][1].retx = @ + 1], "retry",
              st.retry_q[i][1].uid, st.retry_q[i][1].data.addr,
              st.retry_q[i][1].data.data, env)
    [] should = "Cry" -> Err(st, "MessageNeverAcked")
    [] OTHER -> Ok(st)

\* Core::send_retrys, after the entry of slot i
retry_next(r, i, env) ==
  IF r.err # "none" THEN r ELSE retrys_from(r.st, i + 1, env)

\* Core::send_retrys, the timer of slot i has answered w
retry_asked(st, i, w, env) ==
  retry_next(retry_answer([st EXCEPT !.retry_q[i][1].timer = w.timer,
                                     !.walk = Append(@, [uid |-> st.retry_q[i][1].uid,
                                                         should |-> w.should])],
                          i, w.should, env),
             i, env)

\* a walk that drops the entry of slot i when the clock cannot be read
retry_clocked_dropped(c, i, env) ==
  IF c.err # "none" THEN Err([c.st EXCEPT !.retry_q = RemoveAt(@, i - 1)], c.err)
  ELSE retry_asked(c.st, i, what_should_i_do(c.st.retry_q[i][1].timer, now), env)

\* Core::send_retrys, the clock has been read for slot i
retry_clocked(c, i, env) ==
  IF c.err # "none" THEN c
  ELSE retry_asked(c.st, i, what_should_i_do(c.st.retry_q[i][1].timer, now), env)

\* Core::send_retrys from slot i on: every present entry is serialized, the
\* clock is read and the entry's timer asked; the first error ends the walk
retrys_from(st, i, env) ==
  IF i > Len(st.retry_q) THEN Ok(st)
  ELSE IF ~IsSome(st.retry_q[i]) THEN retrys_from(st, i + 1, env)
  ELSE IF ~Fits(st.retry_q[i][1].data.data, DgramCap) THEN Err(st, "ToBytes")
  ELSE retry_clocked(try_now(st, env), i, env)

send_retrys(st, env) == retrys_from(st, 1, env)

----------------------------------------------------------------------------
(* The driver step *)

\* a poll that hands out the waiting datagram and leaves it waiting
poll_peeked(st, env) ==
  IF env.pollErr THEN [st |-> st, err |-> "SockError", dgram |-> None]
  ELSE IF st.rx = <<>> THEN [st |-> st, err |-> "none", dgram |-> None]
  ELSE [st |-> st, err |-> "none", dgram |-> Some(Head(st.rx))]

\* a poll that hands out the first waiting datagram and drops the others
poll_drained(st, env) ==
  IF env.pollErr THEN [st |-> st, err |-> "SockError", dgram |-> None]
  ELSE IF st.rx = <<>> THEN [st |-> st, err |-> "none", dgram |-> None]
  ELSE [st |-> [st EXCEPT !.rx = <<>>], err |-> "none", dgram |-> Some(Head(st.rx))]

\* Socket::poll: one waiting datagram, if any
poll(st, env) ==
  IF env.pollErr THEN [st |-> st, err |-> "SockError", dgram |-> None]
  ELSE IF st.rx = <<>> THEN [st |-> st, err |-> "none", dgram |-> None]
  ELSE [st |-> [st EXCEPT !.rx = Tail(@)], err |-> "none", dgram |-> Some(Head(st.rx))]

\* the outcome of a tick: stage names the step that ended it
Ticked(r, dgram, stage) ==
  [st |-> r.st, err |-> r.err, dgram |-> dgram, stage |-> stage]

\* the When an error of a tick is tagged with: Polling by the poll and the
\* dispatch, SendingMessage by the two outbound walks
When(stage) ==
  IF stage \in {"poll", "dgram"} THEN "Polling" ELSE "SendingMessage"

\* Core::tick, after send_retrys
tick_done(r, dgram) == Ticked(r, dgram, IF r.err # "none" THEN "retrys" ELSE "done")

\* Core::tick, after send_flings
tick_flung(f, dgram, env) ==
  IF f.err # "none" THEN Ticked(f, dgram, "flings")
  ELSE tick_done(send_retrys(f.st, env), dgram)

\* a tick that goes on to the outbound walks whatever the dispatch returned
tick_dispatched_anyway(d, dgram, env) ==
  tick_flung(send_flings(d.st, env), dgram, env)

\* Core::tick, after the dispatch of the datagram
tick_dispatched(d, dgram, env) ==
  IF d.err # "none" \/ d.st.panicked THEN Ticked(d, dgram, "dgram")
  ELSE tick_flung(send_flings(d.st, env), dgram, env)

\* Core::tick, after the poll
tick_polled(p, env) ==
  IF p.err # "none" THEN Ticked(p, None, "poll")
  ELSE tick_dispatched(IF IsSome(p.dgram) THEN dgram_recvd(p.st, p.dgram[1]) ELSE Ok(p.st),
                       p.dgram, env)

\* Core::tick: poll, dispatch, send_flings, send_retrys; each step runs only
\* if the ones before it succeeded
tick(st, env) == tick_polled(poll(st, env), env)

----------------------------------------------------------------------------
(* Caller API *)

\* core::str::from_utf8 fails on host bytes that are no UTF-8 text
NotUtf8 == "<0xff>"
IsUtf8(host) == host # NotUtf8

\* Ipv4Addr::from_str succeeds on the dotted-quad literals
Ipv4Hosts == {"0.0.0.0"}
IsIpv4(host) == host \in Ipv4Hosts

\* a request as send_req reads it: the message it becomes, Uri-Host and
\* Uri-Port
Req(msg, host, port) == [msg |-> msg, host |-> host, port |-> port]

\* the push of send_req: retry_q.push(Some(..)), which panics on a full buffer
pushed(c, t, uid) ==
  IF c.err # "none" THEN c
  ELSE IF Len(c.st.retry_q) >= BufferCap
  THEN Ok([c.st EXCEPT !.panicked = TRUE])
  ELSE Ok([c.st EXCEPT !.retry_q =
             Append(@, Some(Retryable(t, RetryTimer_new(now), uid)))])

\* Core::retryable and the push of send_req: a timer started at the clock's
\* reading
push_retryable(st, t, uid, env) == pushed(try_now(st, env), t, uid)

\* Core::send_req, after the push: serialize and send
send_req_queued(q, req, addr, uid, env) ==
  IF q.err # "none" \/ q.st.panicked THEN q
  ELSE IF ~Fits(req.msg, DgramCap) THEN Err(q.st, "ToBytes")
  ELSE send(q.st, "send_req", uid, addr, req.msg, env)

\* a send_req that queues the request before it looks at the host
send_req_unchecked(st, req, uid, env) ==
  send_req_queued(push_retryable(st, Addrd(req.msg, Addr(req.host, req.port)), uid, env),
                  req, Addr(req.host, req.port), uid, env)

\* Core::send_req
send_req(st, req, uid, env) ==
  IF ~IsUtf8(req.host) THEN Err(st, "HostInvalidUtf8")
  ELSE IF ~IsIpv4(req.host) THEN Err(st, "HostInvalidIpAddress")
  ELSE send_req_queued(push_retryable(st, Addrd(req.msg, Addr(req.host, req.port)), uid, env),
                       req, Addr(req.host, req.port), uid, env)

\* Core::ping: an empty CON message, serialized into 13 bytes and sent
ping(st, host, port, id, env) ==
  IF ~Fits(Msg(Con, id, EmptyToken, EMPTY, 0), PingCap) THEN Err(st, "ToBytes")
  ELSE IF ~IsIpv4(host) THEN Err(st, "HostInvalidIpAddress")
  ELSE send(st, "ping", 0, Addr(host, port), Msg(Con, id, EmptyToken, EMPTY, 0), env)

\* the outcome of a poll: what the call returns, and the tick it ran
Polled(g, some, t) == [st |-> g.st, err |-> g.err, some |-> some, tick |-> t]

\* Core::poll_resp, after try_get_resp
poll_resp_got(g, t) == Polled(g, g.resp, t)

\* a poll_resp that looks for the response before it looks at the tick's
\* result
poll_resp_taken_first(t, token, sock) ==
  IF t.err # "none" \/ t.st.panicked
  THEN Polled([st |-> try_get_resp(t.st, token, sock).st, err |-> t.err], None, t)
  ELSE poll_resp_got(try_get_resp(t.st, token, sock), t)

\* Core::poll_resp, after the tick
poll_resp_ticked(t, token, sock) ==
  IF t.err # "none" \/ t.st.panicked THEN Polled(t, None, t)
  ELSE poll_resp_got(try_get_resp(t.st, token, sock), t)

\* Core::poll_resp: tick, then try_get_resp
poll_resp(st, token, sock, env) == poll_resp_ticked(tick(st, env), token, sock)

\* Core::poll_ping, after the tick
poll_ping_ticked(t, req_id, addr) ==
  IF t.err # "none" \/ t.st.panicked THEN Polled(t, None, t)
  ELSE Polled(check_ping(t.st, req_id, addr), None, t)

\* Core::poll_ping: tick, then check_ping
poll_ping(st, req_id, addr, env) == poll_ping_ticked(tick(st, env), req_id, addr)

\* Core::poll_req, the datagram of the tick parsed as a request
poll_req_parsed(t, parsed) ==
  IF parsed.err # "none" THEN Polled(Err(t.st, parsed.err), None, t)
  ELSE Polled(t, Some(Addrd(parsed.msg, t.dgram[1].addr)), t)

\* Core::poll_req, after the tick
poll_req_ticked(t) ==
  IF t.err # "none" \/ t.st.panicked THEN Polled(t, None, t)
  ELSE IF ~IsSome(t.dgram) THEN Polled(Err(t.st, "WouldBlock"), None, t)
  ELSE poll_req_parsed(t, try_from_bytes(t.dgram[1].data))

\* Core::poll_req: tick, then the datagram of this tick parsed as a request
poll_req(st, env) == poll_req_ticked(tick(st, env))

----------------------------------------------------------------------------
(* History of the last operation *)

NoTick == [err |-> "none", stage |-> "none", dgram |-> None, q |-> <<>>]
TickOf(t) == [err |-> t.err, stage |-> t.stage, dgram |-> t.dgram, q |-> t.st.retry_q]

Last(op, res, id, token, addr, st, tk, got) ==
  [op |-> op, res |-> res, id |-> id, token |-> token, addr |-> addr,
   sent |-> st.sent, walk |-> st.walk, acked |-> st.acked, due |-> st.due, tick |-> tk,
   got |-> got]

\* the operation's final state becomes the core's
Apply(st) ==
  /\ rx' = st.rx
  /\ retry_q' = st.retry_q
  /\ fling_q' = st.fling_q
  /\ resps' = st.resps
  /\ panicked' = st.panicked
  /\ spinning' = st.spinning


----------------------------------------------------------------------------
(* Id and token allocators *)

\* Stamped(value, instant)
Stamped(v, t) == [v |-> v, t |-> t]

\* fold(None, Stamped::find_latest) (crate::time, not part of the sources at
\* hand): the stamps that can be the latest of a history, those with the
\* greatest instant.  Which of several equal instants wins is left open by
\* the design, so each of them is a possible result.
find_latest(stamps) ==
  {stamps[j] : j \in {k \in 1..Len(stamps) : \A m \in 1..Len(stamps) : stamps[k].t >= stamps[m].t}}

\* Core::hash_token: Blake2b with 8 bytes of output over the counter's
\* big-endian bytes, an opaque function of the counter
hash_token(data) == <<"blake2b", data>>

\* Core::next_id with `prev` the latest stamp found (None: the history is
\* empty or missing): the history of the peer after the call
next_id_hist(stamps, prev) ==
  IF IsSome(prev)
  THEN Append(stamps, Stamped((prev[1].v + 1) % IdWidth, now))
  ELSE Append(stamps, Stamped(0, now))

\* Core::next_token likewise, on the pre-hash counters
next_token_hist(stamps, prev) ==
  IF IsSome(prev)
  THEN Append(stamps, Stamped(prev[1].v + 1, now))
  ELSE Append(stamps, Stamped(0, now))

\* the stamps fold can yield for a map entry (None or Some(history))
Latest(entry) ==
  IF IsSome(entry) /\ entry[1] # <<>>
  THEN {Some(s) : s \in find_latest(entry[1])}
  ELSE {None}

HistOf(entry) == IF IsSome(entry) THEN entry[1] ELSE <<>>


----------------------------------------------------------------------------
(* Operations as actions.  Each is one call of the API on the core, from   *)
(* the state the last one left, with the inputs and the behaviour of the   *)
(* socket and clock during the call given.                                 *)

Result(r) == IF r.st.panicked THEN "panic" ELSE IF r.err = "none" THEN "ok" ELSE r.err

\* the (sender, id) of the ACK or RESET a tick received, if it received one
Heard(t) ==
  {<<d.addr, d.data[2].id>> : d \in {x \in {t.dgram[j] : j \in 1..Len(t.dgram)} :
                                      x.data[1] = "coap" /\ x.data[2].ty \in {AckT, Reset}}}

\* the history after an operation that ran a tick
AfterTick(op, r, id, token, addr) ==
  /\ Apply(r.st)
  /\ hist' = [hist EXCEPT !.heard = @ \cup Heard(r.tick),
                          !.got = IF op = "poll_resp" /\ IsSome(r.some)
                                  THEN @ \cup {[uid |-> r.some[1].uid, token |-> token,
                                                addr |-> addr]}
                                  ELSE @]
  /\ last' = Last(op, Result(r), id, token, addr, r.st, TickOf(r.tick),
                  IF op = "poll_resp" /\ IsSome(r.some) THEN r.some[1].uid ELSE 0)
              @@ [ret |-> r.some]
  /\ UNCHANGED <<now, msg_ids, msg_tokens>>

\* the history after send_req
AfterSendReq(r, req) ==
  /\ Apply(r.st)
  /\ hist' = [hist EXCEPT !.req = IF r.st.retry_q # retry_q THEN @ + 1 ELSE @]
  /\ last' = Last("send_req", Result(r), req.msg.id, req.msg.token,
                  Addr(req.host, req.port), r.st, NoTick, 0)
  /\ UNCHANGED <<now, msg_ids, msg_tokens>>

\* the history after ping
AfterPing(r, addr, id) ==
  /\ Apply(r.st)
  /\ hist' = [hist EXCEPT !.pinged = IF r.err = "none" THEN @ \cup {<<addr, id>>} ELSE @]
  /\ last' = Last("ping", Result(r), id, EmptyToken, addr, r.st, NoTick, 0)
  /\ UNCHANGED <<now, msg_ids, msg_tokens>>

\* core.send_req(req)
SendReq(req, env) ==
  /\ ~panicked /\ ~spinning /\ hist.req < MaxReqs
  /\ AfterSendReq(send_req(Start, req, hist.req + 1, env), req)

\* core.ping(host, port); id is the id Req::get gave the message
Ping(host, port, id, env) ==
  /\ ~panicked /\ ~spinning
  /\ AfterPing(ping(Start, host, port, id, env), Addr(host, port), id)

\* core.poll_resp(token, sock)
PollResp(token, sock, env) ==
  /\ ~panicked /\ ~spinning
  /\ AfterTick("poll_resp", poll_resp(Start, token, sock, env), 0, token, sock)

\* core.poll_ping(req_id, addr)
PollPing(req_id, addr, env) ==
  /\ ~panicked /\ ~spinning
  /\ AfterTick("poll_ping", poll_ping(Start, req_id, addr, env), req_id, EmptyToken, addr)

\* core.poll_req()
PollReq(env) ==
  /\ ~panicked /\ ~spinning
  /\ AfterTick("poll_req", poll_req(Start, env), 0, EmptyToken, NoAddr)

\* the history after a call that neither ticks nor sends
AfterCall(op, st, id, token, addr) ==
  /\ Apply(st)
  /\ hist' = [hist EXCEPT !.ack = IF op = "ack" THEN @ + 1 ELSE @]
  /\ last' = Last(op, Result(Ok(st)), id, token, addr, st, NoTick, 0)
  /\ UNCHANGED <<now, msg_ids, msg_tokens>>

\* core.ack(resp); ack_id is what generate_id() gave; at most max calls
Ack(resp, ack_id, max) ==
  /\ ~panicked /\ ~spinning /\ hist.ack < max
  /\ AfterCall("ack", ack(Start, resp, ack_id), ack_id, resp.data.msg.token, resp.addr)

\* core.store_resp(resp)
StoreResp(resp) ==
  /\ ~panicked /\ ~spinning
  /\ AfterCall("store_resp", store_resp(Start, resp), resp.data.msg.id,
               resp.data.msg.token, resp.addr)

\* the n-th response to arrive, n its serial number: the responses carry
\* one of two tokens in turn
Arrived(n, addr) == Stored(Resp(Msg(Con, 7, Token(n % 2), CONTENT, 0)), addr, n)

\* core.store_resp(resp) for the n-th response to arrive; at most max calls
StoreArrived(n, addr, max) ==
  /\ ~panicked /\ ~spinning /\ n <= max
  /\ Apply(store_resp(Start, Arrived(n, addr)))
  /\ hist' = [hist EXCEPT !.dg = n]
  /\ last' = Last("store_resp", Result(Ok(store_resp(Start, Arrived(n, addr)))),
                  7, Token(n % 2), addr, Start, NoTick, 0)
  /\ UNCHANGED <<now, msg_ids, msg_tokens>>

\* a step of the surroundings, as the history records it
Outside(op) ==
  [op |-> op, res |-> "ok", id |-> 0, token |-> EmptyToken, addr |-> NoAddr,
   sent |-> <<>>, walk |-> <<>>, acked |-> 0, due |-> FALSE, tick |-> NoTick, got |-> 0]

\* the peer at addr sends a datagram: it waits in the socket
Deliver(bytes, addr) ==
  /\ ~panicked /\ ~spinning /\ hist.dg < MaxDgrams /\ Len(rx) < MaxRx
  /\ rx' = Append(rx, [data |-> bytes, addr |-> addr, uid |-> hist.dg + 1])
  /\ hist' = [hist EXCEPT !.dg = @ + 1]
  /\ last' = Outside("deliver")
  /\ UNCHANGED <<now, retry_q, fling_q, resps, msg_ids, msg_tokens, panicked, spinning>>

\* time passes
AdvanceClock(d, max) ==
  /\ ~panicked /\ ~spinning /\ now + d <= max
  /\ now' = now + d
  /\ last' = Outside("clock")
  /\ UNCHANGED <<rx, retry_q, fling_q, resps, msg_ids, msg_tokens, panicked, spinning,
               hist>>

\* core.next_id(addr): latest is what the fold over the history found; on
\* u16 overflow the addition panics or wraps, as the build has it; a clock
\* that fails makes Stamped::new(..).unwrap() panic
NextId(addr, latest, clockOk, wraps) ==
  /\ ~panicked /\ ~spinning /\ hist.alloc < MaxAllocs
  /\ latest \in Latest(msg_ids[addr])
  /\ LET overflow == IsSome(latest) /\ latest[1].v + 1 >= IdWidth
         h == next_id_hist(HistOf(msg_ids[addr]), latest)
         ok == clockOk /\ (overflow => wraps)
     IN /\ panicked' = ~ok
        /\ msg_ids' = IF ok THEN [msg_ids EXCEPT ![addr] = Some(h)] ELSE msg_ids
        /\ last' = [Outside("next_id") EXCEPT
                      !.res = IF ok THEN "ok" ELSE "panic",
                      !.id = IF ok THEN h[Len(h)].v ELSE 0,
                      !.addr = addr]
  /\ hist' = [hist EXCEPT !.alloc = @ + 1]
  /\ UNCHANGED <<now, rx, retry_q, fling_q, resps, msg_tokens, spinning>>

\* core.next_token(addr)
NextToken(addr, latest, clockOk) ==
  /\ ~panicked /\ ~spinning /\ hist.alloc < MaxAllocs
  /\ latest \in Latest(msg_tokens[addr])
  /\ LET h == next_token_hist(HistOf(msg_tokens[addr]), latest)
     IN /\ panicked' = ~clockOk
        /\ msg_tokens' = IF clockOk THEN [msg_tokens EXCEPT ![addr] = Some(h)]
                         ELSE msg_tokens
        /\ last' = [Outside("next_token") EXCEPT
                      !.res = IF clockOk THEN "ok" ELSE "panic",
                      !.id = IF clockOk THEN h[Len(h)].v ELSE 0,
                      !.token = IF clockOk THEN hash_token(h[Len(h)].v) ELSE EmptyToken,
                      !.addr = addr]
  /\ hist' = [hist EXCEPT !.alloc = @ + 1]
  /\ UNCHANGED <<now, rx, retry_q, fling_q, resps, msg_ids, spinning>>

----------------------------------------------------------------------------
(* Responses for requests (src/toad/src/resp/mod.rs).  A toad Message has  *)
(* its options and its payload as sequences; a Resp is the message and the *)
(* numbered options set on it so far (None: none set).                     *)

Message(ty, id, opts, code, payload, token) ==
  [ty |-> ty, id |-> id, opts |-> opts, code |-> code, ver |-> "default",
   payload |-> payload, token |-> token]

\* an acknowledgement that takes the default id, not the request's
Resp_ack_default_id(req) ==
  [msg |-> Message(AckT, 0, <<>>, CONTENT, <<>>, req.msg.token), opts |-> None]

\* Resp::ack
Resp_ack(req) ==
  [msg |-> Message(AckT, req.msg.id, <<>>, CONTENT, <<>>, req.msg.token), opts |-> None]

\* Resp::non
Resp_non(req) ==
  [msg |-> Message(Non, 0, <<>>, CONTENT, <<>>, req.msg.token), opts |-> None]

\* Resp::for_request
for_request(req) ==
  CASE req.msg.ty = Con -> Some(Resp_ack(req))
    [] req.msg.ty = Non -> Some(Resp_non(req))
    [] OTHER -> None

\* the call of a function on the argument at hand: last holds the argument,
\* then the call and what it returned
Call(op, ret) ==
  /\ last.op = "arg"
  /\ last' = [op |-> op, arg |-> last.arg, ret |-> ret]
  /\ UNCHANGED <<now, rx, retry_q, fling_q, resps, msg_ids, msg_tokens, panicked,
               spinning, hist>>

\* Resp::for_request(&req)
ForRequest == Call("for_request", for_request(last.arg))

----------------------------------------------------------------------------
(* Numbered options (src/kwap/src/option.rs).  The collection is a         *)
(* sequence of (OptNumber, Opt) pairs; max is its max_size(): None for a   *)
(* growable collection, Some(n) for an array of n.                         *)

Opt(delta, value) == [delta |-> delta, value |-> value]

\* add, `exist`: the position of the first entry with the number, 0 if none
find_number(opts, number) ==
  FirstIndex({j \in 1..Len(opts) : opts[j][1] = number})

\* a test that finds no room when exactly one slot is left
no_room_early(max, n_opts) == IsSome(max) /\ max[1] <= n_opts

\* add, `no_room`: max_size().map(|max| max < n_opts).unwrap_or(false)
no_room(max, n_opts) == IsSome(max) /\ max[1] < n_opts

\* add, for a number the collection does not hold
add_new(opts, max, number, value) ==
  IF no_room(max, Len(opts) + 1)
  THEN [opts |-> opts, ret |-> Some(<<number, value>>)]
  ELSE [opts |-> Append(opts, <<number, Opt(0, value)>>), ret |-> None]

\* add, with `exist` found (0: not found)
add_found(opts, max, number, value, exist) ==
  IF exist > 0
  THEN [opts |-> [opts EXCEPT ![exist][2].value = value], ret |-> None]
  ELSE add_new(opts, max, number, value)

\* option::add
add(opts, max, number, value) ==
  add_found(opts, max, number, value, find_number(opts, number))

\* add(&mut opts, number, value) on the collection at hand
Add(number, value) ==
  /\ last.op \in {"opts", "add"}
  /\ last' = [op |-> "add", max |-> last.max, before |-> last.opts, number |-> number,
              value |-> value, opts |-> add(last.opts, last.max, number, value).opts,
              ret |-> add(last.opts, last.max, number, value).ret]
  /\ UNCHANGED <<now, rx, retry_q, fling_q, resps, msg_ids, msg_tokens, panicked,
               spinning, hist>>

\* sort_by_key, one step: x goes before the first entry of the sorted list
\* whose number is not less than its own
sort_insert(x, sorted) ==
  SelectSeq(sorted, LAMBDA e : e[1] < x[1]) \o <<x>>
    \o SelectSeq(sorted, LAMBDA e : e[1] >= x[1])

\* os.sort_by_key(|&(OptNumber(num), _)| num): stable, ascending by number
RECURSIVE sort_by_key(_)
sort_by_key(os) ==
  IF os = <<>> THEN <<>> ELSE sort_insert(Head(os), sort_by_key(Tail(os)))

\* a sum that takes the delta of the last option only
delta_last(opts) ==
  IF opts = <<>> THEN 0 ELSE opts[Len(opts)].delta

\* normalize: opts.iter().fold(0u16, |n, opt| opt.delta.0 + n), as an integer
RECURSIVE delta_sum(_)
delta_sum(opts) ==
  IF opts = <<>> THEN 0 ELSE Head(opts).delta + delta_sum(Tail(opts))

\* the outcome of normalize: the options, or a panic on u16 overflow
Normalized(opts, panic) == [opts |-> opts, panicked |-> panic]

RECURSIVE normalize_from(_, _, _)

\* normalize, the fold's step for (num, opt) with `delta` the sum so far:
\* the sum overflows u16 at 65536, (num as u16) - delta underflows below 0;
\* the build either panics on these (wraps = FALSE) or wraps modulo 2^16
normalize_step(sorted, opts, wraps, delta) ==
  IF (delta >= DeltaWidth \/ (Head(sorted)[1] % DeltaWidth) < (delta % DeltaWidth)) /\ ~wraps
  THEN Normalized(opts, TRUE)
  ELSE normalize_from(Tail(sorted),
                      Append(opts, [Head(sorted)[2] EXCEPT
                                      !.delta = ((Head(sorted)[1] % DeltaWidth) + DeltaWidth
                                                   - (delta % DeltaWidth)) % DeltaWidth]),
                      wraps)

\* normalize, the fold over the sorted pairs
normalize_from(sorted, opts, wraps) ==
  IF sorted = <<>> THEN Normalized(opts, FALSE)
  ELSE normalize_step(sorted, opts, wraps, delta_sum(opts))

\* option::normalize
normalize(os, wraps) ==
  IF os = <<>> THEN Normalized(<<>>, FALSE)
  ELSE normalize_from(sort_by_key(os), <<>>, wraps)

\* normalize(os) on the list at hand
Normalize == Call("normalize", normalize(last.arg.os, last.arg.wraps))

\* enumerate_option_numbers (toad_msg, not part of the sources at hand): each
\* option of a delta-encoded list with its number, the sum of the deltas up
\* to it
RECURSIVE enumerate_option_numbers(_)
enumerate_option_numbers(opts) ==
  IF opts = <<>> THEN <<>>
  ELSE Append(enumerate_option_numbers(SubSeq(opts, 1, Len(opts) - 1)),
              <<delta_sum(opts), opts[Len(opts)]>>)

\* the normalized options read back as numbered options (Resp from
\* Message) and normalized again (Message from Resp)
Renormalize ==
  /\ last.op = "normalize" /\ ~last.ret.panicked
  /\ last' = [op |-> "renormalize", arg |-> last.arg, first |-> last.ret,
              ret |-> normalize(enumerate_option_numbers(last.ret.opts), last.arg.wraps)]
  /\ UNCHANGED <<now, rx, retry_q, fling_q, resps, msg_ids, msg_tokens, panicked,
               spinning, hist>>

----------------------------------------------------------------------------
(* Inputs *)

A1 == Addr("0.0.0.0", 1234)
A2 == Addr("0.0.0.0", 5632)
Addrs == {A1, A2}

\* a payload that does not fit a datagram
TooLong == DgramCap + 1

\* requests: two confirmable ones and a non-confirmable one, one too long
\* to serialize, one for a host that is no IPv4 literal, one for a host
\* that is no UTF-8 text
ReqCon0 == Req(Msg(Con, 0, Token(0), GET, 0), "0.0.0.0", 1234)
ReqCon1 == Req(Msg(Con, 1, Token(1), GET, 0), "0.0.0.0", 1234)
ReqNon0 == Req(Msg(Non, 0, Token(0), GET, 0), "0.0.0.0", 5632)
ReqLong == Req(Msg(Con, 0, Token(0), GET, TooLong), "0.0.0.0", 1234)
ReqBadHost == Req(Msg(Con, 0, Token(0), GET, 0), "coap.example", 1234)
ReqBadUtf8 == Req(Msg(Con, 0, Token(0), GET, 0), NotUtf8, 1234)

\* datagrams: empty ACKs and RESETs, responses, a request, and junk
AckOf(id, addr) == Addrd(Bytes(Msg(AckT, id, EmptyToken, EMPTY, 0)), addr)
ResetOf(id, addr) == Addrd(Bytes(Msg(Reset, id, EmptyToken, EMPTY, 0)), addr)
RespOf(ty, id, n, addr) == Addrd(Bytes(Msg(ty, id, Token(n), CONTENT, 0)), addr)
GetFrom(addr) == Addrd(Bytes(Msg(Non, 0, Token(0), GET, 0)), addr)
Coded(ty, code, n, addr) == Addrd(Bytes(Msg(ty, 0, Token(n), code, 0)), addr)
JunkFrom(addr) == Addrd(Junk, addr)

\* a CON response as the caller hands it to ack or store_resp
ConResp(id, addr) == Stored(Resp(Msg(Con, id, Token(0), CONTENT, 0)), addr, 0)

\* a NON response likewise (of another token)
NonResp(id, addr) == Stored(Resp(Msg(Non, id, Token(1), CONTENT, 0)), addr, 0)

\* socket and clock behaviours during one operation: all goes well, the
\* poll fails, the n-th send fails, or the n-th clock read fails
AllWell == Env(FALSE, 0, 0)
PollFails == Env(TRUE, 0, 0)
SendFails == Env(FALSE, 1, 0)
SendEnvs == {AllWell, SendFails, Env(FALSE, 0, 1)}
TickEnvs ==
  {AllWell, PollFails} \cup {Env(FALSE, n, 0) : n \in 1..MaxFail}
                            \cup {Env(FALSE, 0, n) : n \in 1..MaxFail}

----------------------------------------------------------------------------
(* Specifications *)

Init ==
  /\ now = 0
  /\ rx = <<>>
  /\ retry_q = <<>>
  /\ fling_q = <<>>
  /\ resps = <<>>
  /\ msg_ids = [a \in Addrs |-> None]
  /\ msg_tokens = [a \in Addrs |-> None]
  /\ panicked = FALSE
  /\ spinning = FALSE
  /\ hist = [req |-> 0, dg |-> 0, alloc |-> 0, ack |-> 0, heard |-> {}, pinged |-> {},
             got |-> {}]
  /\ last = Outside("new")

\* requests and pings, the peers' ACKs and RESETs, and poll_ping
Next ==
  \/ \E req \in {ReqCon0, ReqCon1, ReqBadHost, ReqBadUtf8}, env \in {AllWell, SendFails} :
       SendReq(req, env)
  \/ \E host \in {"0.0.0.0", "coap.example"}, env \in {AllWell, SendFails} :
       Ping(host, 1234, 0, env)
  \/ \E p \in {<<0, A1>>, <<1, A1>>, <<0, A2>>}, env \in {AllWell, PollFails} :
       PollPing(p[1], p[2], env)
  \/ \E d \in {AckOf(0, A1), ResetOf(1, A1), ResetOf(0, A2)} : Deliver(d.data, d.addr)

Spec == Init /\ [][Next]_vars

\* responses from the peers, poll_resp and poll_req
NextResp ==
  \/ \E token \in {Token(0), Token(1)}, sock \in Addrs, env \in TickEnvs :
       PollResp(token, sock, env)
  \/ \E env \in TickEnvs : PollReq(env)
  \/ \E d \in {RespOf(AckT, 0, 0, A1), RespOf(Con, 1, 0, A1), RespOf(Non, 0, 1, A1),
               RespOf(Non, 0, 0, A2), GetFrom(A1), JunkFrom(A1)} :
       Deliver(d.data, d.addr)

SpecResp == Init /\ [][NextResp]_vars

\* confirmable requests left unanswered while time passes
NextRetry ==
  \/ \E env \in SendEnvs : SendReq(ReqCon0, env)
  \/ \E env \in TickEnvs : PollReq(env)
  \/ Deliver(AckOf(0, A1).data, A1)
  \/ AdvanceClock(RetryStep, MaxRetryTime)

SpecRetry == Init /\ [][NextRetry]_vars

\* the allocators
NextIds ==
  \/ \E addr \in Addrs, latest \in {None} \cup {Some(Stamped(v, t)) : v \in 0..MaxAllocs, t \in 0..MaxAllocTime},
        clockOk \in BOOLEAN, wraps \in BOOLEAN :
       NextId(addr, latest, clockOk, wraps)
  \/ \E addr \in Addrs, latest \in {None} \cup {Some(Stamped(v, t)) : v \in 0..MaxAllocs, t \in 0..MaxAllocTime},
        clockOk \in BOOLEAN :
       NextToken(addr, latest, clockOk)
  \/ AdvanceClock(1, MaxAllocTime)

SpecIds == Init /\ [][NextIds]_vars

\* a client and server at once: requests, ACKs owed to the peer, datagrams
\* from the peer, and ticks under every behaviour of the socket
NextTick ==
  \/ \E env \in {AllWell, Busy(1, "always")} : retry_q = <<>> /\ SendReq(ReqCon0, env)
  \/ \E resp \in {ConResp(7, A1), NonResp(7, A2)} : Ack(resp, 9 + hist.ack, MaxAcks)
  \/ \E env \in {AllWell, PollFails, SendFails, Busy(1, "once"), Busy(1, "always")} :
       PollReq(env)
  \/ \E d \in {AckOf(0, A1), JunkFrom(A1)} : Deliver(d.data, d.addr)
  \/ AdvanceClock(RetryStep, RetryStep)

SpecTick == Init /\ [][NextTick]_vars

\* the buffers filled to their capacity: ACKs owed and sent, responses
\* stored and claimed
NextFull ==
  \/ Ack(ConResp(7, A1), 9, BufferCap + 1)
  \/ StoreResp(ConResp(7, A1))
  \/ PollResp(Token(0), A1, AllWell)

SpecFull == Init /\ [][NextFull]_vars

\* requests as for_request reads them: every type, ids up to the greatest,
\* with and without token, options and payload
Requests ==
  {[msg |-> Message(ty, id, opts, GET, payload, token)] :
     ty \in {Con, Non, AckT, Reset}, id \in {0, 1, IdWidth - 1},
     opts \in {<<>>, <<<<11, <<104>>>>>>}, payload \in {<<>>, <<1, 2>>},
     token \in {EmptyToken, Token(0), Token(1)}}

\* a function is given one of args
InitArg(args) ==
  /\ now = 0
  /\ rx = <<>>
  /\ retry_q = <<>>
  /\ fling_q = <<>>
  /\ resps = <<>>
  /\ msg_ids = [a \in Addrs |-> None]
  /\ msg_tokens = [a \in Addrs |-> None]
  /\ panicked = FALSE
  /\ spinning = FALSE
  /\ hist = [req |-> 0, dg |-> 0, alloc |-> 0, ack |-> 0, heard |-> {}, pinged |-> {},
             got |-> {}]
  /\ last \in {[op |-> "arg", arg |-> a, ret |-> None] : a \in args}

NextForRequest == ForRequest

SpecForRequest == InitArg(Requests) /\ [][NextForRequest]_vars

\* an empty collection of options, growable or an array of MaxOpts
NoOpts ==
  {[op |-> "opts", max |-> max, before |-> <<>>, number |-> 0, value |-> <<>>,
    opts |-> <<>>, ret |-> None] : max \in {None, Some(MaxOpts)}}

InitOpts ==
  /\ now = 0
  /\ rx = <<>>
  /\ retry_q = <<>>
  /\ fling_q = <<>>
  /\ resps = <<>>
  /\ msg_ids = [a \in Addrs |-> None]
  /\ msg_tokens = [a \in Addrs |-> None]
  /\ panicked = FALSE
  /\ spinning = FALSE
  /\ hist = [req |-> 0, dg |-> 0, alloc |-> 0, ack |-> 0, heard |-> {}, pinged |-> {},
             got |-> {}]
  /\ last \in NoOpts

NextOpts == \E number \in 0..MaxOpts, value \in {<<>>, <<1>>} : Add(number, value)

SpecOpts == InitOpts /\ [][NextOpts]_vars

\* option lists for normalize: numbers of one and of more than 16 bits, in
\* any order and with repeats, and the build's way with integer overflow
OptLists ==
  UNION {[1..n -> {1, 3, 32, DeltaWidth} \X {Opt(0, <<>>), Opt(0, <<7>>)}] :
           n \in 0..MaxOptLen}

NextNormalize == Normalize \/ Renormalize

SpecNormalize ==
  InitArg({[os |-> os, wraps |-> w] : os \in OptLists, w \in BOOLEAN}) /\ [][NextNormalize]_vars

\* inbound messages of every type and code class, for the token of the
\* queued request and for another
Inbound ==
  {Coded(AckT, CONTENT, 0, A1), Coded(Con, NOT_FOUND, 1, A1), Coded(Non, Code(5, 0), 0, A1),
   Coded(Reset, CONTENT, 1, A2), Coded(Non, Code(3, 0), 0, A1), Coded(Con, GET, 0, A1),
   Coded(Non, EMPTY, 1, A1), AckOf(0, A1), AckOf(1, A1)}

NextStore ==
  \/ SendReq(ReqCon0, AllWell)
  \/ \E env \in {AllWell, SendFails} : PollReq(env)
  \/ \E d \in Inbound : Deliver(d.data, d.addr)

SpecStore == Init /\ [][NextStore]_vars

\* responses stored up to capacity and beyond, claimed by token in between
NextCompact ==
  \/ StoreArrived(hist.dg + 1, A1, MaxStores)
  \/ \E token \in {Token(0), Token(1)} : PollResp(token, A1, AllWell)

SpecCompact == Init /\ [][NextCompact]_vars

\* the id allocator of a peer that has been given the ids up to 65534 (of
\* its history the latest stamp is kept, the older ones play no part)
InitWrap ==
  /\ now = 0
  /\ rx = <<>>
  /\ retry_q = <<>>
  /\ fling_q = <<>>
  /\ resps = <<>>
  /\ msg_ids = [a \in Addrs |-> IF a = A1 THEN Some(<<Stamped(IdWidth - 2, 0)>>) ELSE None]
  /\ msg_tokens = [a \in Addrs |-> None]
  /\ panicked = FALSE
  /\ spinning = FALSE
  /\ hist = [req |-> 0, dg |-> 0, alloc |-> 0, ack |-> 0, heard |-> {}, pinged |-> {},
             got |-> {}]
  /\ last = Outside("new")

NextWrap ==
  \/ \E latest \in {Some(Stamped(v, t)) : v \in {IdWidth - 2, IdWidth - 1} \cup 0..MaxAllocs,
                                          t \in 0..MaxAllocTime},
        wraps \in BOOLEAN :
       NextId(A1, latest, TRUE, wraps)
  \/ AdvanceClock(1, MaxAllocTime)

SpecWrap == InitWrap /\ [][NextWrap]_vars

\* the datagrams the peers send in the inbound specification: a request, an
\* ACK, a response and one that does not parse
Waiting == {GetFrom(A1), AckOf(0, A1), RespOf(Non, 0, 0, A1), JunkFrom(A1)}

\* the socket's queue holding the datagrams ds, numbered in their order
Queue(ds) == [j \in 1..Len(ds) |-> [data |-> ds[j].data, addr |-> ds[j].addr, uid |-> j]]

\* a new core on a socket in which datagrams wait already
InitReq ==
  /\ now = 0
  /\ rx \in {Queue(ds) : ds \in UNION {[1..n -> Waiting] : n \in 0..MaxWaiting}}
  /\ retry_q = <<>>
  /\ fling_q = <<>>
  /\ resps = <<>>
  /\ msg_ids = [a \in Addrs |-> None]
  /\ msg_tokens = [a \in Addrs |-> None]
  /\ panicked = FALSE
  /\ spinning = FALSE
  /\ hist = [req |-> 0, dg |-> Len(rx), alloc |-> 0, ack |-> 0, heard |-> {}, pinged |-> {},
             got |-> {}]
  /\ last = Outside("new")

\* every polling call, with an ACK owed to the peer and a request awaiting
\* its ACK so that a tick has messages to send and a timer to ask
NextReq ==
  \/ \E env \in {AllWell, PollFails, SendFails} : PollReq(env)
  \/ \E env \in {AllWell, PollFails, SendFails, Env(FALSE, 0, 1)} : PollResp(Token(0), A1, env)
  \/ \E env \in {AllWell, SendFails} : PollPing(0, A1, env)
  \/ Ack(ConResp(7, A1), 9 + hist.ack, MaxAcks)
  \/ retry_q = <<>> /\ SendReq(ReqCon1, AllWell)

SpecReq == InitReq /\ [][NextReq]_vars

\* requests of both types and one too long to serialize, sent with and
\* without a failure of the socket, and ticks as time passes
NextSend ==
  \/ \E req \in {ReqCon0, ReqNon0, ReqLong}, env \in {AllWell, SendFails} : SendReq(req, env)
  \/ \E env \in {AllWell, SendFails} : PollReq(env)
  \/ AdvanceClock(RetryStep, MaxRetryTime)

SpecSend == Init /\ [][NextSend]_vars

----------------------------------------------------------------------------
(* Properties *)

\* the serial numbers of the entries present in a buffer
UidsIn(buf) == {buf[j][1].uid : j \in {k \in 1..Len(buf) : IsSome(buf[k])}}

\* the elements of a sequence
Elems(seq) == {seq[j] : j \in 1..Len(seq)}

\* the tick of the operation received an ACK or RESET
AckHeard(l) ==
  /\ IsSome(l.tick.dgram)
  /\ l.tick.dgram[1].data[1] = "coap"
  /\ l.tick.dgram[1].data[2].ty \in {AckT, Reset}

\* the slots of q holding an entry for the sender and id of datagram d
MatchingSlots(q, d) ==
  {j \in 1..Len(q) : /\ IsSome(q[j])
                     /\ q[j][1].data.addr = d.addr
                     /\ q[j][1].data.data.id = d.data[2].id}

Min(S) == CHOOSE x \in S : \A y \in S : x <= y

StoredFor(buf, token, sock) ==
  {j \in 1..Len(buf) : resp_matches(buf[j], token, sock)}

\* the tick of the operation received a response for (token, sock)
RespHeard(l, token, sock) ==
  /\ IsSome(l.tick.dgram)
  /\ l.tick.dgram[1].data[1] = "coap"
  /\ CodeKind(l.tick.dgram[1].data[2].code) = "Response"
  /\ l.tick.dgram[1].data[2].token = token
  /\ l.tick.dgram[1].addr = sock

\* two poll_resp calls in a row for the same (token, addr), the first of
\* which returned a response, the second receiving no matching datagram
PolledAgain(l, m) ==
  /\ l.op = "poll_resp" /\ l.res = "ok"
  /\ m.op = "poll_resp" /\ m.token = l.token /\ m.addr = l.addr
  /\ ~RespHeard(m, m.token, m.addr)

\* C2 as stated: a stored response is returned by at most one poll_resp
\* call, and after the call that returns it a further poll_resp for the
\* same (token, addr) with no new matching datagram (its tick succeeding)
\* returns WouldBlock.
C2_ThenWouldBlock ==
  [][/\ (last'.op = "poll_resp" /\ last'.got > 0)
          => last'.got \notin {g.uid : g \in hist.got}
     /\ (PolledAgain(last, last') /\ last'.tick.err = "none")
          => last'.res = "WouldBlock"]_vars

\* C2 amended: a stored response is returned by at most one poll_resp call
\* and is no longer stored once returned; after the call that returns it a
\* further poll_resp for the same (token, addr) whose tick succeeds and
\* receives no new matching datagram returns WouldBlock exactly when no
\* other response for (token, addr) was still stored, and otherwise
\* returns that other response.
C2_TakenOnce ==
  [][/\ (last'.op = "poll_resp" /\ last'.got > 0)
          => /\ last'.got \notin {g.uid : g \in hist.got}
             /\ last'.got \notin UidsIn(resps')
     /\ (PolledAgain(last, last') /\ last'.tick.err = "none")
          => /\ last'.res \in {"ok", "WouldBlock"}
             /\ last'.res = "WouldBlock" <=> StoredFor(resps, last'.token, last'.addr) = {}]_vars

\* C2 witness: a poll_resp returns WouldBlock for a (token, addr) whose
\* response an earlier poll_resp has returned
C2_Witness ==
  /\ last.op = "poll_resp" /\ last.res = "WouldBlock"
  /\ \E g \in hist.got : g.token = last.token /\ g.addr = last.addr

\* the entries of the retry walk of the operation that the timer gave up on
GivenUp(l) == {w.uid : w \in {x \in Elems(l.walk) : x.should = "Cry"}}

\* C3: when the timer of a retry_q entry answers GiveUp, the step fails with
\* MessageNeverAcked and the entry is no longer in retry_q when it returns.
C3_GiveUpRemoves ==
  GivenUp(last) # {} =>
    /\ last.res = "MessageNeverAcked"
    /\ GivenUp(last) \cap UidsIn(retry_q) = {}

\* C4: every CON message handed to the socket by send_req or ping is in
\* retry_q (with its timer) by the time of that first transmission.
C4_ConQueuedFirst ==
  \A s \in Elems(last.sent) :
     (s.by \in {"send_req", "ping"} /\ s.msg.ty = Con) => s.queued

\* C5: after ping(addr) sent a CON with id i, a poll_ping(i, addr) whose
\* tick succeeds returns WouldBlock while no RESET or ACK with id i has been
\* received from addr, and returns success when its tick receives one.
C5_BlocksUntilReset ==
  (last.op = "poll_ping" /\ last.tick.err = "none"
     /\ <<last.addr, last.id>> \in hist.pinged)
    => /\ <<last.addr, last.id>> \in Heard(last.tick) => last.res = "ok"
       /\ <<last.addr, last.id>> \notin hist.heard => last.res = "WouldBlock"

\* C6: poll_ping(id, addr) whose tick succeeds returns success exactly when
\* retry_q, as the tick left it, has no present entry with that id and
\* address, and WouldBlock otherwise; it leaves retry_q as the tick left it.
C6_PingDoneIffUnqueued ==
  (last.op = "poll_ping" /\ last.tick.err = "none")
    => /\ last.res \in {"ok", "WouldBlock"}
       /\ last.res = "ok" <=>
            ~\E e \in Elems(Present(last.tick.q)) :
                e.data.data.id = last.id /\ e.data.addr = last.addr
       /\ retry_q = last.tick.q

\* C6 witness: a poll_ping returns success while retry_q holds an entry,
\* one for another id or another peer
C6_Witness ==
  /\ last.op = "poll_ping" /\ last.tick.err = "none" /\ last.res = "ok"
  /\ Present(retry_q) # <<>>

\* C7: the ids next_id has returned for a peer are 0, 1, 2, ... in the order
\* of the calls, whatever the clock read at each call.
C7_IdsCountUp ==
  \A a \in Addrs : \A j \in 1..Len(HistOf(msg_ids[a])) : HistOf(msg_ids[a])[j].v = j - 1

\* C8: the pre-hash counters of the tokens next_token has emitted for a peer
\* start at 0 and every two consecutive ones differ by exactly one.
C8_CountersStepByOne ==
  \A a \in Addrs :
     LET tks == HistOf(msg_tokens[a])
     IN \A j \in 1..Len(tks) : IF j = 1 THEN tks[j].v = 0 ELSE tks[j].v - tks[j - 1].v = 1

\* the entry was dealt with by the retry walk of the operation: its timer
\* answered Wait, or a send of it was issued
Attended(l, uid) ==
  \/ \E w \in Elems(l.walk) : w.uid = uid /\ w.should = "Wait"
  \/ \E s \in Elems(l.sent) : s.by = "retry" /\ s.uid = uid

C10_RetransmissionsBounded ==
  /\ [](\A e \in Elems(Present(retry_q)) :
          e.retx <= MaxAttempts /\ e.retx + e.timer.attempts = MaxAttempts)
  /\ [][\A e \in Elems(Present(retry_q)) :
          e.timer.attempts = 0 =>
            /\ \A s \in Elems(last'.sent) : ~(s.by = "retry" /\ s.uid = e.uid)
            /\ \A w \in Elems(last'.walk) : ~(w.uid = e.uid /\ w.should = "Retry")
            /\ \A f \in Elems(Present(retry_q')) : f.uid = e.uid => f.retx = e.retx]_vars

\* C10 witness: an entry has been sent again five times and its timer has
\* given up on this tick
C10_Witness ==
  \E e \in Elems(Present(retry_q)) :
     /\ e.retx = MaxAttempts /\ e.timer.attempts = 0
     /\ e.uid \in GivenUp(last)

\* C11: no operation waits on the socket: every call returns, and no send
\* is asked of the socket again within the call after a WouldBlock.
C11_NoStepBlocks ==
  /\ ~spinning
  /\ \A s \in Elems(last.sent) : s.spun = 0

\* C12: a push into resps, fling_q or retry_q fails (panics) only when the
\* buffer holds 16 present entries, that is when compaction frees no slot.
C12_PushFailsOnlyWhenFull ==
  [][(panicked' /\ ~panicked) =>
       CASE last'.op = "ack" -> Len(Present(fling_q)) = BufferCap
         [] last'.op = "send_req" -> Len(Present(retry_q)) = BufferCap
         [] OTHER -> Len(Present(resps)) = BufferCap]_vars

\* C13: send_flings removes an entry only after its send succeeded: an
\* entry present in fling_q before a step is still in its slot after it
\* unless the step handed it to the socket with success (steps that return).
C13_FlingKeptUntilSent ==
  [][\A j \in 1..Len(fling_q) :
       (IsSome(fling_q[j]) /\ ~spinning') =>
         \/ fling_q'[j] = fling_q[j]
         \/ \E s \in Elems(last'.sent) :
              s.by = "fling" /\ s.ok /\ Addrd(s.msg, s.addr) = fling_q[j][1]]_vars

\* the datagram a tick polled does not parse as a message
HeardJunk(t) == IsSome(t.dgram) /\ t.dgram[1].data[1] # "coap"

\* C14: within a tick inbound processing precedes the fling sends, which
\* precede the retry sends: an entry whose ACK or RESET the tick received is
\* neither asked for nor sent again by that tick, no retry send comes before
\* a fling send, and a tick whose poll, dispatch or fling send failed runs
\* none of the later phases.
C14_PhasesInOrder ==
  last.tick.stage # "none" =>
    /\ \A i, j \in 1..Len(last.sent) :
         (last.sent[i].by = "retry" /\ last.sent[j].by = "fling") => j < i
    /\ last.acked > 0 =>
         /\ \A s \in Elems(last.sent) : ~(s.by = "retry" /\ s.uid = last.acked)
         /\ \A w \in Elems(last.walk) : w.uid # last.acked
    /\ (last.tick.stage = "poll" \/ HeardJunk(last.tick)) =>
         (last.sent = <<>> /\ last.walk = <<>>)
    /\ (\E s \in Elems(last.sent) : s.by = "fling" /\ ~s.ok) =>
         (last.walk = <<>> /\ \A s \in Elems(last.sent) : s.by # "retry")

\* a tick that received the ACK of an entry whose timer had run out, sent a
\* queued ACK and ran to its end
C14_Witness ==
  /\ last.tick.stage = "done"
  /\ last.acked > 0 /\ last.due
  /\ \E s \in Elems(last.sent) : s.by = "fling" /\ s.ok

\* C15: a tick that polls a datagram that does not parse fails with
\* FromBytes tagged Polling, leaves retry_q, fling_q and resps as they were
\* and has consumed the datagram; no other tick fails in the dispatch with
\* FromBytes.
C15_JunkFailsOneTick ==
  [][/\ (last'.tick.stage # "none" /\ HeardJunk(last'.tick)) =>
          /\ last'.res = "FromBytes"
          /\ When(last'.tick.stage) = "Polling"
          /\ UNCHANGED <<retry_q, fling_q, resps>>
          /\ rx # <<>> /\ rx' = Tail(rx)
          /\ \A d \in Elems(rx') : d.uid # last'.tick.dgram[1].uid
     /\ (last'.tick.stage = "dgram" /\ last'.tick.err = "FromBytes") =>
          HeardJunk(last'.tick)]_vars

\* a tick failed by an unparsable datagram with a request and an ACK queued
C15_Witness ==
  /\ last.res = "FromBytes" /\ HeardJunk(last.tick)
  /\ Present(retry_q) # <<>> /\ Present(fling_q) # <<>>
  /\ rx = <<>>

\* C16: an ACK or RESET that matches no retry_q entry is absorbed: the
\* dispatch of it leaves the core as it was, the tick that received it does
\* not fail in the dispatch and leaves retry_q and resps with the entries
\* they had, and the datagram is consumed.
C16_StrayAckAbsorbed ==
  [][(AckHeard(last') /\ MatchingSlots(retry_q, last'.tick.dgram[1]) = {}) =>
       /\ msg_recvd(Start, Addrd(last'.tick.dgram[1].data[2], last'.tick.dgram[1].addr), 0)
            = Start
       /\ last'.acked = 0
       /\ last'.tick.stage # "dgram"
       /\ Len(retry_q') = Len(retry_q) /\ UidsIn(retry_q') = UidsIn(retry_q)
       /\ resps' = resps
       /\ rx # <<>> /\ rx' = Tail(rx)]_vars

\* a tick received a RESET or ACK for an id that is queued for another peer
C16_Witness ==
  /\ AckHeard(last) /\ last.acked = 0 /\ last.tick.err = "none"
  /\ \E j \in 1..Len(retry_q) :
       /\ IsSome(retry_q[j])
       /\ retry_q[j][1].data.data.id = last.tick.dgram[1].data[2].id
       /\ retry_q[j][1].data.addr # last.tick.dgram[1].addr

\* the last operation was send_req or ping for a host that is no IPv4 literal
BadHostCall(l) == l.op \in {"send_req", "ping"} /\ ~IsIpv4(l.addr[1])

\* C17: send_req and ping with a host that is not a valid IPv4 literal
\* return HostInvalidIpAddress, send nothing and leave retry_q, fling_q and
\* resps unchanged.
C17_BadHostIpError ==
  [][BadHostCall(last') =>
       /\ last'.res = "HostInvalidIpAddress"
       /\ last'.sent = <<>>
       /\ UNCHANGED <<retry_q, fling_q, resps>>]_vars

\* C17 amended: send_req and ping with a host that is not a valid IPv4
\* literal send nothing and leave retry_q, fling_q and resps unchanged; they
\* return HostInvalidIpAddress when the host is UTF-8 text, and send_req
\* returns HostInvalidUtf8 when the host bytes are not.
C17_BadHostRejected ==
  [][BadHostCall(last') =>
       /\ last'.res = IF IsUtf8(last'.addr[1]) THEN "HostInvalidIpAddress"
                      ELSE "HostInvalidUtf8"
       /\ last'.sent = <<>>
       /\ UNCHANGED <<retry_q, fling_q, resps>>]_vars

\* a request for a host name was refused with a request already queued
C17_Witness ==
  /\ last.op = "send_req" /\ last.res = "HostInvalidIpAddress"
  /\ last.addr[1] = "coap.example"
  /\ Present(retry_q) # <<>>

\* the entries whose timers the walk of the last tick has asked
Walked(l) == {w.uid : w \in Elems(l.walk)}

\* C18: when the clock cannot be read during send_retrys the tick ends with
\* ClockError, and the entry the walk had reached is still in retry_q with
\* its timer as it was and was not sent; no queued entry is dropped.  A
\* send_req whose clock read fails queues and sends nothing.
C18_ClockErrorKeepsEntry ==
  [][/\ (last'.tick.stage = "retrys" /\ last'.tick.err = "ClockError") =>
          /\ last'.res = "ClockError"
          /\ UidsIn(retry_q) \ {last'.acked} \subseteq UidsIn(retry_q')
          /\ \E j \in 1..Len(retry_q') :
               IsSome(retry_q'[j]) /\ retry_q'[j][1].uid \notin Walked(last')
          /\ \A j \in 1..Len(retry_q') :
               (IsSome(retry_q'[j]) /\ retry_q'[j][1].uid \notin Walked(last')) =>
                  /\ retry_q'[j] \in Elems(retry_q)
                  /\ \A s \in Elems(last'.sent) :
                       ~(s.by = "retry" /\ s.uid = retry_q'[j][1].uid)
     /\ (last'.op = "send_req" /\ last'.res = "ClockError") =>
          (last'.sent = <<>> /\ UNCHANGED retry_q)]_vars

\* a tick ended by a clock failure at an entry whose timer had run out
C18_Witness ==
  /\ last.tick.stage = "retrys" /\ last.tick.err = "ClockError"
  /\ \E j \in 1..Len(retry_q) :
       /\ IsSome(retry_q[j])
       /\ retry_q[j][1].uid \notin Walked(last)
       /\ retry_q[j][1].timer.next <= now

\* C19: for_request answers a CON request with an ACK that has the
\* request's id and token, a NON request with a NON that has the request's
\* token, and any other message with no response; every response has code
\* 2.05, no options and an empty payload.
C19_ResponseForRequest ==
  last.op = "for_request" =>
    /\ last.arg.msg.ty = Con =>
         /\ IsSome(last.ret)
         /\ last.ret[1].msg.ty = AckT
         /\ last.ret[1].msg.id = last.arg.msg.id
         /\ last.ret[1].msg.token = last.arg.msg.token
    /\ last.arg.msg.ty = Non =>
         /\ IsSome(last.ret)
         /\ last.ret[1].msg.ty = Non
         /\ last.ret[1].msg.token = last.arg.msg.token
    /\ last.arg.msg.ty \notin {Con, Non} => last.ret = None
    /\ IsSome(last.ret) =>
         /\ last.ret[1].msg.code = Code(2, 5)
         /\ last.ret[1].msg.opts = <<>> /\ last.ret[1].opts = None
         /\ last.ret[1].msg.payload = <<>>

\* the response for a CON request with a nonzero id, a token, options and a
\* payload
C19_Witness ==
  /\ last.op = "for_request" /\ IsSome(last.ret)
  /\ last.arg.msg.ty = Con /\ last.arg.msg.id = IdWidth - 1
  /\ last.arg.msg.token = Token(1)
  /\ last.arg.msg.opts # <<>> /\ last.arg.msg.payload # <<>>

\* the positions of opts that hold the number
Holding(opts, number) == {j \in 1..Len(opts) : opts[j][1] = number}

\* C20: add replaces the value of the entry with the number if there is one
\* (length unchanged, returns None); else appends an entry if there is room
\* (returns None); else leaves the collection unchanged and returns
\* Some((number, value)).  After any adds from empty no two entries share a
\* number.
C20_AddKeepsNumbersUnique ==
  last.op = "add" =>
    /\ Holding(last.before, last.number) # {} =>
         /\ last.ret = None
         /\ Len(last.opts) = Len(last.before)
         /\ \A j \in 1..Len(last.before) :
              /\ last.opts[j][1] = last.before[j][1]
              /\ last.opts[j][2].value =
                   IF j = Min(Holding(last.before, last.number))
                   THEN last.value ELSE last.before[j][2].value
    /\ (/\ Holding(last.before, last.number) = {}
        /\ (last.max = None \/ Len(last.before) < last.max[1])) =>
         /\ last.ret = None
         /\ Len(last.opts) = Len(last.before) + 1
         /\ SubSeq(last.opts, 1, Len(last.before)) = last.before
         /\ last.opts[Len(last.opts)][1] = last.number
         /\ last.opts[Len(last.opts)][2].value = last.value
    /\ (/\ Holding(last.before, last.number) = {}
        /\ last.max # None /\ Len(last.before) >= last.max[1]) =>
         /\ last.ret = Some(<<last.number, last.value>>)
         /\ last.opts = last.before
    /\ \A j, k \in 1..Len(last.opts) : last.opts[j][1] = last.opts[k][1] => j = k

\* add has filled the last free slot of an array
C20_Witness ==
  /\ last.op = "add" /\ last.ret = None
  /\ last.max = Some(MaxOpts)
  /\ Len(last.before) = MaxOpts - 1 /\ Len(last.opts) = MaxOpts

\* the sum of the deltas of opts up to position i
RECURSIVE RunningSum(_, _)
RunningSum(opts, i) == IF i = 0 THEN 0 ELSE opts[i].delta + RunningSum(opts, i - 1)

\* p orders the pairs of os by ascending number
Ascending(os, p) == \A i, j \in 1..Len(os) : i < j => os[p[i]][1] <= os[p[j]][1]

\* C21: for every list of (number, option) pairs normalize returns the
\* options in ascending order of number, the sum of the deltas up to
\* position i being the i-th smallest number, with no overflow or
\* underflow; the empty list gives the empty list.
C21_NormalizeDeltas ==
  last.op = "normalize" =>
    /\ ~last.ret.panicked
    /\ Len(last.ret.opts) = Len(last.arg.os)
    /\ \E p \in Permutations(1..Len(last.arg.os)) :
         /\ Ascending(last.arg.os, p)
         /\ \A i \in 1..Len(last.arg.os) :
              /\ last.ret.opts[i].value = last.arg.os[p[i]][2].value
              /\ RunningSum(last.ret.opts, i) = last.arg.os[p[i]][1]

\* C22: normalization is idempotent: the options of a normalized list,
\* read back with their numbers and normalized again, are the delta-encoded
\* sequence the first normalization gave.
C22_NormalizeIdempotent ==
  last.op = "renormalize" => last.ret = last.first

\* a list of three numbers out of order was normalized twice
C22_Witness ==
  /\ last.op = "renormalize" /\ Len(last.arg.os) = 3
  /\ last.arg.os[1][1] > last.arg.os[2][1] /\ last.arg.os[2][1] < last.arg.os[3][1]
  /\ \A i \in 1..3 : last.first.opts[i].delta > 0

\* the tick of the operation received a datagram that parsed as a message
MsgHeard(l) == IsSome(l.tick.dgram) /\ l.tick.dgram[1].data[1] = "coap"

\* the stored entries of buf that came with datagram uid
FromDgram(buf, uid) == {buf[j][1] : j \in {k \in 1..Len(buf) : IsSome(buf[k]) /\ buf[k][1].uid = uid}}

\* C23: an inbound message is put into resps, with its sender address, if
\* and only if its code class is 2, 4 or 5, whatever its type and whether
\* or not a request with its token is queued; nothing else is stored.
C23_StoredIffResponse ==
  [][/\ MsgHeard(last') =>
          /\ FromDgram(resps', last'.tick.dgram[1].uid) # {}
               <=> last'.tick.dgram[1].data[2].code[1] \in {2, 4, 5}
          /\ \A r \in FromDgram(resps', last'.tick.dgram[1].uid) :
               /\ r.addr = last'.tick.dgram[1].addr
               /\ r.data.msg = last'.tick.dgram[1].data[2]
          /\ UidsIn(resps') \ {last'.tick.dgram[1].uid} = UidsIn(resps)
     /\ ~MsgHeard(last') => UidsIn(resps') \subseteq UidsIn(resps)]_vars

\* a 4.04 response of type CON was stored while the one queued request has
\* another token
C23_Witness ==
  /\ MsgHeard(last) /\ last.tick.dgram[1].data[2].code = NOT_FOUND
  /\ FromDgram(resps, last.tick.dgram[1].uid) # {}
  /\ Present(retry_q) # <<>>
  /\ \A j \in 1..Len(retry_q) :
       retry_q[j][1].data.data.token # last.tick.dgram[1].data[2].token

\* the datagram of the response the tick of the operation stored, if any
HeardResp(l) ==
  IF MsgHeard(l) /\ CodeKind(l.tick.dgram[1].data[2].code) = "Response"
  THEN {l.tick.dgram[1]} ELSE {}

\* the responses for (token, sock) that a poll_resp finds stored after its
\* tick: those of buf and the one the tick has just stored, by serial
\* number (responses are stored in the order of their serial numbers)
Candidates(buf, l) ==
  {buf[j][1].uid : j \in StoredFor(buf, l.token, l.addr)}
    \cup {d.uid : d \in {x \in HeardResp(l) : x.data[2].token = l.token /\ x.addr = l.addr}}

\* C24: a poll_resp whose tick succeeds returns the earliest-stored present
\* response with its token and address and takes it from the store; when
\* no stored response has both it returns WouldBlock and takes nothing.
C24_EarliestMatchReturned ==
  [][(last'.op = "poll_resp" /\ last'.tick.err = "none") =>
       /\ Candidates(resps, last') # {} =>
            /\ last'.res = "ok"
            /\ last'.got = Min(Candidates(resps, last'))
       /\ Candidates(resps, last') = {} =>
            /\ last'.res = "WouldBlock"
            /\ last'.got = 0
       /\ UidsIn(resps') =
            (UidsIn(resps) \cup {d.uid : d \in HeardResp(last')}) \ {last'.got}]_vars

\* poll_resp returned the earlier of two responses stored for its token and
\* address; the later one is still stored
C24_Witness ==
  /\ last.op = "poll_resp" /\ last.res = "ok"
  /\ \E j \in StoredFor(resps, last.token, last.addr) : resps[j][1].uid > last.got

\* the message of the datagram the tick of the operation received
MsgOf(l) == Addrd(l.tick.dgram[1].data[2], l.tick.dgram[1].addr)

\* q without the entry of slot k
Without(q, k) == SubSeq(q, 1, k - 1) \o SubSeq(q, k + 1, Len(q))

C26_CompactionKeepsOrder ==
  [][(/\ last'.op = "store_resp"
      /\ Len(resps) = BufferCap
      /\ \E j \in 1..Len(resps) : ~IsSome(resps[j])) =>
       /\ ~panicked'
       /\ \A j \in 1..Len(resps') : IsSome(resps'[j])
       /\ Len(resps') = Len(Present(resps)) + 1
       /\ SubSeq(Present(resps'), 1, Len(Present(resps))) = Present(resps)
       /\ resps'[Len(resps')][1].uid = hist'.dg]_vars

\* the store that first found resps at capacity (the one after BufferCap
\* stores) has dropped empty slots from between present responses
C26_Witness ==
  /\ last.op = "store_resp" /\ hist.dg = BufferCap + 1 /\ ~panicked
  /\ Len(resps) > 2 /\ Len(resps) < BufferCap
  /\ \E j \in 1..(Len(resps) - 2) :
       resps[j + 1][1].uid > resps[j][1].uid + 1 /\ resps[j][1].uid > 1

\* the fling sends of the operation, as the addressed messages sent
FlingSends(l) ==
  [j \in 1..Len(SelectSeq(l.sent, LAMBDA x : x.by = "fling")) |->
     Addrd(SelectSeq(l.sent, LAMBDA x : x.by = "fling")[j].msg,
           SelectSeq(l.sent, LAMBDA x : x.by = "fling")[j].addr)]

\* C27: when send_flings succeeds every entry that was present in fling_q
\* has been sent once, in slot order, and fling_q holds no present entry;
\* when it ends with an error at an entry, the entries before it were sent in
\* slot order and the entries after it were not sent and are still present.
C27_FlingsInSlotOrder ==
  [][~spinning' =>
       /\ last'.tick.stage \in {"retrys", "done"} =>
            /\ FlingSends(last') = Present(fling_q)
            /\ \A s \in Elems(last'.sent) : s.by = "fling" => s.ok
            /\ Present(fling_q') = <<>>
       /\ last'.tick.stage = "flings" =>
            /\ FlingSends(last') # <<>>
            /\ FlingSends(last') = SubSeq(Present(fling_q), 1, Len(FlingSends(last')))
            /\ \A j \in 1..Len(last'.sent) : last'.sent[j].ok <=> j < Len(last'.sent)
            /\ Present(fling_q') =
                 SubSeq(Present(fling_q), Len(FlingSends(last')) + 1, Len(Present(fling_q)))]_vars

\* send_flings ended with an error at the first of two queued ACKs: the
\* second was not sent and is still queued
C27_Witness ==
  /\ last.tick.stage = "flings" /\ ~spinning
  /\ Len(FlingSends(last)) = 1
  /\ Len(Present(fling_q)) = 1
  /\ Present(fling_q)[1].data.id # FlingSends(last)[1].data.id

\* C28: when the latest id recorded for a peer is 65535, next_id for the
\* peer does not fail and returns 0.
C28_IdWrapsToZero ==
  [][(/\ last'.op = "next_id"
      /\ IsSome(msg_ids[last'.addr])
      /\ \A s \in find_latest(msg_ids[last'.addr][1]) : s.v = IdWidth - 1) =>
       (last'.res = "ok" /\ last'.id = 0)]_vars


\* C29: the token next_token emits depends on nothing but the number of
\* tokens the peer has been issued before: the k-th call for any peer of any
\* engine emits the hash of k - 1, whatever the clock read and whichever the
\* peer is.
C29_TokenByCountOnly ==
  [][(last'.op = "next_token" /\ last'.res = "ok") =>
       last'.token = hash_token(Len(HistOf(msg_tokens[last'.addr])))]_vars


\* the responses the specifications hand to ack; their tokens tell them apart
AckInputs == {ConResp(7, A1), NonResp(7, A2)}

\* C30: ack(resp) for a CON resp appends exactly one ACK, addressed to
\* resp's sender, to fling_q (unless fling_q holds 16 present entries, where
\* the design lets the push fail); for a resp of any other type it leaves
\* fling_q as it is; in both cases retry_q and resps stay as they are and
\* nothing is sent on the socket.
C30_AckEnqueuesOne ==
  [][\A resp \in AckInputs :
       (last'.op = "ack" /\ last'.token = resp.data.msg.token /\ last'.addr = resp.addr) =>
         /\ last'.sent = <<>> /\ rx' = rx /\ retry_q' = retry_q /\ resps' = resps
         /\ IF resp.data.msg.ty # Con THEN fling_q' = fling_q /\ ~panicked'
            ELSE Len(Present(fling_q)) < BufferCap =>
                   /\ ~panicked'
                   /\ fling_q' = Append(fling_q,
                                        Some(Addrd(Msg(AckT, last'.id, resp.data.msg.token, EMPTY, 0),
                                                   resp.addr)))]_vars


\* a step that ran a tick took at most one datagram from the socket, the
\* one that waited longest
TookAtMostOne ==
  last'.tick.stage # "none" =>
    \/ rx' = rx /\ ~IsSome(last'.tick.dgram)
    \/ rx # <<>> /\ rx' = Tail(rx) /\ last'.tick.dgram = Some(Head(rx))

\* what poll_req returns for the datagram its tick received
ReqOf(l) == Some(Addrd(l.tick.dgram[1].data[2], l.tick.dgram[1].addr))

\* C31 as stated: each tick takes at most one datagram from the socket;
\* every poll_req whose tick received no datagram returns WouldBlock, and
\* every other poll_req returns the datagram of its tick as a request with
\* the sender's address (a datagram that does not parse aside).
C31_PollReqReturnsDgram ==
  [][/\ TookAtMostOne
     /\ (last'.op = "poll_req" /\ ~HeardJunk(last'.tick)) =>
          IF IsSome(last'.tick.dgram)
          THEN last'.res = "ok" /\ last'.ret = ReqOf(last')
          ELSE last'.res = "WouldBlock" /\ last'.ret = None]_vars

\* C31 amended: each tick takes at most one datagram from the socket; a
\* poll_req whose tick succeeded returns WouldBlock when the tick received
\* no datagram and otherwise the datagram of that tick as a request with the
\* sender's address; a poll_req whose tick failed returns the tick's error
\* and no request.
C31_PollReqOfGoodTick ==
  [][/\ TookAtMostOne
     /\ (last'.op = "poll_req" /\ last'.tick.err = "none" /\ ~panicked') =>
          IF IsSome(last'.tick.dgram)
          THEN last'.res = "ok" /\ last'.ret = ReqOf(last')
          ELSE last'.res = "WouldBlock" /\ last'.ret = None
     /\ (last'.op = "poll_req" /\ last'.tick.err # "none") =>
          last'.res = last'.tick.err /\ last'.ret = None]_vars

\* a poll_req has returned the first of two waiting datagrams, its tick
\* having sent an ACK, and the second still waits
C31_Witness ==
  /\ last.op = "poll_req" /\ last.res = "ok"
  /\ last.ret = ReqOf(last)
  /\ last.sent # <<>>
  /\ Len(rx) = 1 /\ rx[1].uid = last.tick.dgram[1].uid + 1


\* the call just made was poll_resp or poll_ping and its tick received
\* datagram u, a request
Dropped(u) ==
  /\ last.op \in {"poll_resp", "poll_ping"}
  /\ MsgHeard(last) /\ last.tick.dgram[1].uid = u
  /\ last.tick.dgram[1].data[2].ty \notin {AckT, Reset}
  /\ CodeKind(last.tick.dgram[1].data[2].code) \notin {"Response", "Empty"}

\* datagram u is in none of the socket's and the core's buffers, and the
\* call just made was no poll_req that received it
Gone(u) ==
  /\ \A d \in Elems(rx) : d.uid # u
  /\ FromDgram(resps, u) = {}
  /\ ~(last.op = "poll_req" /\ IsSome(last.tick.dgram) /\ last.tick.dgram[1].uid = u)

\* C32: a request the tick of a poll_resp or poll_ping took from the socket
\* is, from the end of that call on, held in no buffer and returned by no
\* poll_req.
C32_RequestNotKept ==
  \A u \in 1..MaxWaiting : [](Dropped(u) => []Gone(u))

\* a poll_resp has taken a request from the socket and returned WouldBlock,
\* with an ACK sent by its tick and another datagram still waiting
C32_Witness ==
  /\ last.op = "poll_resp" /\ Dropped(1)
  /\ last.res = "WouldBlock" /\ last.sent # <<>>
  /\ Len(rx) = 1


\* the serial numbers of the stored responses a step took out of resps
TakenOut == UidsIn(resps) \ UidsIn(resps')

\* C33: a poll_resp whose tick fails returns the tick's error and takes no
\* response: every stored response, one the failed tick itself stored
\* included, stays in resps, stays there through every call but a
\* poll_resp for its token and address whose tick succeeds, and the next
\* such poll_resp returns the earliest stored response of that token and
\* address and takes nothing else.
C33_FailedPollTakesNothing ==
  [][/\ (last'.op = "poll_resp" /\ last'.tick.err # "none") =>
          /\ last'.res = last'.tick.err
          /\ last'.ret = None /\ last'.got = 0
          /\ TakenOut = {}
          /\ \A d \in HeardResp(last') :
               last'.tick.stage \notin {"poll", "dgram"} => d.uid \in UidsIn(resps')
     /\ (last'.op # "poll_resp" \/ last'.tick.err # "none") => TakenOut = {}
     /\ (last'.op = "poll_resp" /\ last'.tick.err = "none"
           /\ StoredFor(resps, last'.token, last'.addr) # {}) =>
          /\ last'.res = "ok"
          /\ last'.ret = Some(resps[FirstIndex(StoredFor(resps, last'.token, last'.addr))][1])
          /\ TakenOut = {last'.ret[1].uid}]_vars

\* a poll_resp has failed in a send of its tick after the tick stored a
\* response for the token and address asked for, which is in resps still
C33_Witness ==
  /\ last.op = "poll_resp" /\ last.res = "SockError"
  /\ last.tick.stage \in {"flings", "retrys"}
  /\ \E d \in HeardResp(last) :
       /\ d.data[2].token = last.token /\ d.addr = last.addr
       /\ d.uid \in {resps[j][1].uid : j \in StoredFor(resps, last.token, last.addr)}


\* the entry a send_req for the request of l puts into retry_q
EntryOf(l, e) ==
  /\ e.data.data.id = l.id /\ e.data.data.token = l.token
  /\ e.data.addr = l.addr /\ e.retx = 0

\* C34: a send_req that succeeds, for a NON request as for a CON one, adds
\* exactly one entry to retry_q and transmits the message once; a send_req
\* whose serialization or send fails returns the error and leaves the entry
\* it enqueued in retry_q; and later ticks still transmit such an entry:
\* a tick that gets to the retry walk asks the timer of the first entry
\* present and sends the entry when the timer answers Retry.
C34_SendReqQueuesOnce ==
  [][/\ (last'.op = "send_req" /\ last'.res \in {"ok", "ToBytes", "SockError"}) =>
          /\ Len(retry_q') = Len(retry_q) + 1
          /\ SubSeq(retry_q', 1, Len(retry_q)) = retry_q
          /\ IsSome(retry_q'[Len(retry_q')]) /\ EntryOf(last', retry_q'[Len(retry_q')][1])
          /\ last'.res = "ok" =>
               Len(last'.sent) = 1 /\ last'.sent[1].ok /\ last'.sent[1].by = "send_req"
          /\ last'.res = "ToBytes" => last'.sent = <<>>
     /\ (last'.tick.stage \in {"retrys", "done"} /\ Present(retry_q') # <<>>) =>
          \E w \in Elems(last'.walk) :
             /\ w.uid = Present(retry_q')[1].uid
             /\ w.should = "Retry" =>
                  \E x \in Elems(last'.sent) : x.by = "retry" /\ x.uid = w.uid]_vars

============================================================================
